---------------------------- MODULE Spec2Model ----------------------------
(***************************************************************************)
(* A model of three audits of lighthouse-plugin-publisher-ads:             *)
(*   CumulativeAdShift  (audits/cumulative-ad-shift.js)                    *)
(*   FirstAdPaint       (src/unnamed/part_000)                             *)
(*   GptBidsInParallel  (src/unnamed/part_001)                             *)
(* together with the dependency graph, the timing simulation and the       *)
(* critical path extraction that GptBidsInParallel calls and whose code    *)
(* lives in utils/graph and utils/network-timing.                          *)
(*                                                                         *)
(* Every audit is a pure function of its artifacts.  Init draws the        *)
(* artifacts from bounded sets, one action per audit applies the whole     *)
(* handler and stores what it returned.                                    *)
(***************************************************************************)
EXTENDS Integers, Sequences, FiniteSets, TLC

VARIABLES
  audit,                  \* meta.id of the audit that runs on the artifacts
  pc,                     \* "start" before the audit ran, "done" after it returned
  traceEvents,            \* artifacts.traces[DEFAULT_PASS].traceEvents
  IFrameElements,         \* artifacts.IFrameElements
  timing,                 \* what AdPaintTime.request resolved to
  LighthouseRunWarnings,  \* context.LighthouseRunWarnings
  network,                \* NetworkRecords.request(devtoolsLog, context)
  frameCreator,           \* frame hierarchy: the request that created frame 2 (0: none)
  maxConnections,         \* the simulator's concurrency cap
  scoreCalls,             \* the values handed to Audit.computeLogNormalScore, in order
  normalScore,            \* what Audit.computeLogNormalScore returned last
  graph,                  \* the edges of the dependency graph the audit built
  nodeTimings,            \* the simulated timing of every node of that graph
  result                  \* the audit's product

vars == <<audit, pc, traceEvents, IFrameElements, timing, LighthouseRunWarnings,
          network, frameCreator, maxConnections, scoreCalls, normalScore,
          graph, nodeTimings, result>>

----------------------------------------------------------------------------
(* Bounds of the model *)

MaxEvents == 3
MaxRecords == 3

----------------------------------------------------------------------------
(* JavaScript numbers: finite values (integers here), NaN and the two      *)
(* infinities.  A comparison with NaN is false.                            *)

Num(v) == [k |-> "num", v |-> v]
NaN == [k |-> "nan", v |-> 0]
Infinity == [k |-> "inf", v |-> 0]
NegInfinity == [k |-> "ninf", v |-> 0]

IsFinite(a) == a.k = "num"

\* a < b as JavaScript evaluates it
JsLt(a, b) ==
  CASE a.k = "nan" \/ b.k = "nan" -> FALSE
    [] a.k = "inf" -> FALSE
    [] b.k = "ninf" -> FALSE
    [] a.k = "ninf" -> TRUE
    [] b.k = "inf" -> TRUE
    [] OTHER -> a.v < b.v

\* a > b as JavaScript evaluates it
JsGt(a, b) == JsLt(b, a)

SeqsUpTo(S, n) == UNION {[1..k -> S] : k \in 0..n}

----------------------------------------------------------------------------
(* The results shared by the audits (messages/common-strings)              *)

NoLayoutShifts == [notApplicable |-> TRUE, message |-> "NoLayoutShifts"]
NoAdRendered == [notApplicable |-> TRUE, message |-> "NoAdRendered"]
NoTag == [notApplicable |-> TRUE, message |-> "NO_TAG"]
NoBids == [notApplicable |-> TRUE, message |-> "NO_BIDS"]
WarnNoAdRendered == "runWarning.NoAdRendered"
NoResult == [notApplicable |-> FALSE, message |-> "pending"]

(* Audit.computeLogNormalScore: a score between 0 and 1, here in           *)
(* thousandths.  The curve is Lighthouse's; the audits only rely on its    *)
(* range, so every call may return any of these values.                    *)
ScoreValues == {0, 500, 899, 900, 950, 1000}

----------------------------------------------------------------------------
(* Geometry (utils/geometry)                                               *)

toClientRect(a) ==
  [left |-> a[1], top |-> a[2], width |-> a[3], height |-> a[4],
   right |-> a[1] + a[3], bottom |-> a[2] + a[4]]

overlaps(a, b) ==
  /\ a.left < b.right /\ b.left < a.right
  /\ a.top < b.bottom /\ b.top < a.bottom

----------------------------------------------------------------------------
(* CumulativeAdShift                                                       *)

\* old_rect arrays of impacted nodes, [left, top, width, height]
RectNear == <<0, 0, 2, 2>>
RectFar == <<10, 10, 1, 1>>
\* client rectangles of iframes
AdRectA == toClientRect(<<1, 1, 2, 2>>)
AdRectB == toClientRect(<<5, 5, 2, 2>>)

ImpactedNodes == {<<>>, <<[old_rect |-> RectFar]>>,
                  <<[old_rect |-> RectFar], [old_rect |-> RectNear]>>}

Event(name, args, main, recent, score, ts, nodes, tag) ==
  [name |-> name, args |-> args, is_main_frame |-> main,
   had_recent_input |-> recent, score |-> score, ts |-> ts,
   impacted_nodes |-> nodes, implTag |-> tag]

\* Events that are no layout shift: the evaluation of the implementation tag
\* (isImplTag(getScriptUrl(e))) at time 1 or 2, and any other event.
OtherEvents ==
  {Event("EvaluateScript", "none", FALSE, FALSE, 0, ts, <<>>, TRUE) : ts \in {1, 2}}
    \cup {Event("Paint", "none", FALSE, FALSE, 0, 1, <<>>, FALSE)}

\* Layout shifts without args, or with args and no data.
BareShiftEvents ==
  {Event("LayoutShift", a, FALSE, FALSE, 0, 1, <<>>, FALSE) : a \in {"none", "nodata"}}

\* Layout shifts of another frame or after recent input: next to an ad, before
\* the tag, with a positive score.
ForeignShiftEvents ==
  {Event("LayoutShift", "data", mr[1], mr[2], 2, 1,
         <<[old_rect |-> RectNear]>>, FALSE) :
     mr \in {<<FALSE, FALSE>>, <<TRUE, TRUE>>}}

\* Layout shifts of the main frame without recent input.
MainShiftEvents ==
  {Event("LayoutShift", "data", TRUE, FALSE, s, ts, n, FALSE) :
     s \in {-1, 2}, ts \in {1, 2}, n \in ImpactedNodes}

TraceEventKinds ==
  OtherEvents \cup BareShiftEvents \cup ForeignShiftEvents \cup MainShiftEvents

IFrame(ad, rect) == [isAdIframe |-> ad, clientRect |-> rect]

IFrameConfigs ==
  {<<IFrame(FALSE, AdRectA)>>, <<IFrame(TRUE, AdRectA)>>,
   <<IFrame(TRUE, AdRectB), IFrame(TRUE, AdRectA)>>,
   <<IFrame(FALSE, AdRectA), IFrame(TRUE, AdRectB)>>}

\* CumulativeAdShift.isAdShift
isAdShift(shiftEvent, ads) ==
  IF shiftEvent.args # "data" THEN FALSE
  ELSE \E a \in 1..Len(ads) : \E n \in 1..Len(shiftEvent.impacted_nodes) :
         overlaps(toClientRect(shiftEvent.impacted_nodes[n].old_rect),
                  ads[a].clientRect)

ZeroTotals ==
  [cumulativeShift |-> 0, numShifts |-> 0,
   cumulativeAdShift |-> 0, numAdShifts |-> 0,
   cumulativePreImplTagAdShift |-> 0, numPreImplTagAdShifts |-> 0]

\* computeSkips without the had_recent_input check.
computeSkipsIgnoringInput(event) ==
  \/ event.args # "data"
  \/ ~event.is_main_frame

\* The condition under which the loop of compute continues with the next event.
computeSkips(event) ==
  \/ event.args # "data"
  \/ ~event.is_main_frame
  \/ event.had_recent_input

\* computeStep with the pre-tag totals updated outside the isAdShift branch.
computeStepPreTagUnnested(t, event, ads, tagLoadTs) ==
  IF computeSkips(event) THEN t
  ELSE LET t1 == [t EXCEPT !.cumulativeShift = @ + event.score,
                           !.numShifts = @ + 1]
           t2 == IF isAdShift(event, ads)
                   THEN [t1 EXCEPT !.cumulativeAdShift = @ + event.score,
                                   !.numAdShifts = @ + 1]
                   ELSE t1
       IN IF JsLt(Num(event.ts), tagLoadTs)
            THEN [t2 EXCEPT !.cumulativePreImplTagAdShift = @ + event.score,
                            !.numPreImplTagAdShifts = @ + 1]
            ELSE t2

\* One iteration of the loop of compute: the totals after `event`.
computeStep(t, event, ads, tagLoadTs) ==
  IF computeSkips(event) THEN t
  ELSE LET t1 == [t EXCEPT !.cumulativeShift = @ + event.score,
                           !.numShifts = @ + 1]
       IN IF ~isAdShift(event, ads) THEN t1
          ELSE LET t2 == [t1 EXCEPT !.cumulativeAdShift = @ + event.score,
                                    !.numAdShifts = @ + 1]
               IN IF JsLt(Num(event.ts), tagLoadTs)
                    THEN [t2 EXCEPT !.cumulativePreImplTagAdShift = @ + event.score,
                                    !.numPreImplTagAdShifts = @ + 1]
                    ELSE t2

RECURSIVE computeLoop(_, _, _, _)
\* The totals after the first n iterations of the loop of compute.
computeLoop(shiftEvents, n, ads, tagLoadTs) ==
  IF n = 0 THEN ZeroTotals
  ELSE computeStep(computeLoop(shiftEvents, n - 1, ads, tagLoadTs),
                   shiftEvents[n], ads, tagLoadTs)

\* CumulativeAdShift.compute
compute(shiftEvents, ads, tagLoadTs) ==
  computeLoop(shiftEvents, Len(shiftEvents), ads, tagLoadTs)

\* trace.traceEvents.filter((e) => e.name === 'LayoutShift')
LayoutShiftEvents(events) == SelectSeq(events, LAMBDA e : e.name = "LayoutShift")

\* trace.traceEvents.find(isImplTag(getScriptUrl(e))) || {ts: Infinity}
tagLoadEventTs(events) ==
  LET hits == {i \in 1..Len(events) : events[i].implTag}
  IN IF hits = {} THEN Infinity
     ELSE Num(events[CHOOSE i \in hits : \A j \in hits : i <= j].ts)

\* artifacts.IFrameElements.filter(isAdIframe)
AdIframes(frames) == SelectSeq(frames, LAMBDA f : f.isAdIframe)

\* What CumulativeAdShift.audit returns before it scores: a not-applicable
\* result, or "score" when it goes on to compute and score.
casGuard(events, frames) ==
  IF Len(LayoutShiftEvents(events)) = 0 THEN NoLayoutShifts
  ELSE IF Len(AdIframes(frames)) = 0 THEN NoAdRendered
  ELSE NoResult

\* The product CumulativeAdShift.audit returns once the evaluator gave `score`.
casProduct(details, score) ==
  [notApplicable |-> FALSE, message |-> "scored",
   numericValue |-> details.cumulativeAdShift,
   score |-> score, details |-> details]

InitCAS ==
  /\ audit = "cumulative-ad-shift"
  /\ pc = "start"
  /\ traceEvents \in SeqsUpTo(TraceEventKinds, MaxEvents)
  /\ IFrameElements \in IFrameConfigs
  /\ timing = NaN
  /\ LighthouseRunWarnings = <<>>
  /\ network = <<>>
  /\ frameCreator = 0
  /\ maxConnections = 1
  /\ scoreCalls = <<>>
  /\ normalScore = -1
  /\ graph = {}
  /\ nodeTimings = <<>>
  /\ result = NoResult

\* CumulativeAdShift.audit
CumulativeAdShiftAudit ==
  /\ audit = "cumulative-ad-shift"
  /\ pc = "start"
  /\ pc' = "done"
  /\ LET guard == casGuard(traceEvents, IFrameElements)
         details == compute(LayoutShiftEvents(traceEvents),
                            AdIframes(IFrameElements),
                            tagLoadEventTs(traceEvents))
     IN IF guard.notApplicable
          THEN /\ result' = guard
               /\ UNCHANGED <<scoreCalls, normalScore>>
          ELSE \E s \in ScoreValues :
                 /\ scoreCalls' = Append(scoreCalls, Num(details.cumulativeAdShift))
                 /\ normalScore' = s
                 /\ result' = casProduct(details, s)
  /\ UNCHANGED <<audit, traceEvents, IFrameElements, timing, LighthouseRunWarnings,
                 network, frameCreator, maxConnections, graph, nodeTimings>>

NextCAS == CumulativeAdShiftAudit

SpecCAS == InitCAS /\ [][NextCAS]_vars

----------------------------------------------------------------------------
(* FirstAdPaint                                                            *)

\* Point of diminishing returns and median, in ms.
PODR == 3000
MEDIAN == 4000

\* What AdPaintTime.request may resolve to: any JavaScript number.
Timings ==
  {NaN, Infinity, NegInfinity}
    \cup {Num(v) : v \in {-1, 0, 1, 2999, PODR, MEDIAN, 9000}}

\* Warnings that earlier audits of the run left in the context.
MaxWarnings == 2
EarlierWarnings == SeqsUpTo({WarnNoAdRendered, "runWarning.NoTag"}, MaxWarnings)

\* if (!(timing > 0))
fapNotApplicable(t) == ~JsGt(t, Num(0))

\* fapClamp with > in place of >=.
fapClampStrict(s) == IF s > 900 THEN 1000 ELSE s

\* if (normalScore >= 0.9) normalScore = 1;
fapClamp(s) == IF s >= 900 THEN 1000 ELSE s

\* timing * 1e-3
fapSeconds(t) == [ms |-> t, factor |-> "1e-3"]

\* The product FirstAdPaint.audit returns once the evaluator gave `s`.
fapProduct(t, s) ==
  [notApplicable |-> FALSE, message |-> "scored",
   numericValue |-> fapSeconds(t), score |-> fapClamp(s),
   displayValue |-> [timeInMs |-> t]]

InitFAP ==
  /\ audit = "first-ad-paint"
  /\ pc = "start"
  /\ traceEvents = <<>>
  /\ IFrameElements = <<>>
  /\ timing \in Timings
  /\ LighthouseRunWarnings \in EarlierWarnings
  /\ network = <<>>
  /\ frameCreator = 0
  /\ maxConnections = 1
  /\ scoreCalls = <<>>
  /\ normalScore = -1
  /\ graph = {}
  /\ nodeTimings = <<>>
  /\ result = NoResult

\* FirstAdPaint.audit
FirstAdPaintAudit ==
  /\ audit = "first-ad-paint"
  /\ pc = "start"
  /\ pc' = "done"
  /\ IF fapNotApplicable(timing)
       THEN /\ LighthouseRunWarnings' = Append(LighthouseRunWarnings, WarnNoAdRendered)
            /\ result' = NoAdRendered
            /\ UNCHANGED <<scoreCalls, normalScore>>
       ELSE \E s \in ScoreValues :
              /\ scoreCalls' = Append(scoreCalls, timing)
              /\ normalScore' = s
              /\ result' = fapProduct(timing, s)
              /\ UNCHANGED LighthouseRunWarnings
  /\ UNCHANGED <<audit, traceEvents, IFrameElements, timing, network, frameCreator,
                 maxConnections, graph, nodeTimings>>

NextFAP == FirstAdPaintAudit

SpecFAP == InitFAP /\ [][NextFAP]_vars

----------------------------------------------------------------------------
(* Dependency graph, timing simulation and critical path                   *)
(* (utils/graph, utils/network-timing; sections 4.2 to 4.4 of the design). *)
(* Nodes are the requests 1..Len(net) and one synthetic root per frame;    *)
(* an edge <<a, b>> says that b depends on a.  Records carry no redirect   *)
(* predecessor.                                                            *)

MaxConnections == 2

Frames == {1, 2}
Root(f) == 0 - f
Requests(net) == 1..Len(net)
Nodes(net) == Requests(net) \cup {Root(f) : f \in Frames}

\* The direct dependencies of x.
Preds(E, x) == {e[1] : e \in {d \in E : d[2] = x}}

RECURSIVE AncClosure(_, _)
AncClosure(E, S) ==
  LET P == UNION {Preds(E, x) : x \in S}
  IN IF P \subseteq S THEN S ELSE AncClosure(E, S \cup P)

\* The nodes with a directed path of at least one edge to x.
Ancestors(E, x) == AncClosure(E, Preds(E, x))

\* The edges buildGraph considers, in order: for each request the edge from its
\* initiator when that is a node of the set, from the root of its frame
\* otherwise; then the edge that chains the root of frame 2 to the request that
\* created the frame.
CandidateEdges(net, creator) ==
  [i \in Requests(net) |->
     IF net[i].initiator \in Requests(net)
       THEN <<net[i].initiator, i>>
       ELSE <<Root(net[i].frameId), i>>]
    \o (IF creator \in Requests(net) THEN << <<creator, Root(2)>> >> ELSE <<>>)

\* ClosesCycle that only looks for the reverse edge.
ClosesCycleDirectOnly(E, e) == e[1] = e[2] \/ <<e[2], e[1]>> \in E

\* Adding e to E would close a cycle: e's head already reaches e's tail.
ClosesCycle(E, e) == e[1] = e[2] \/ e[2] \in Ancestors(E, e[1])

RECURSIVE AddEdges(_, _, _)
\* The graph after the candidates k, k+1, ... were considered, from g.
AddEdges(cands, k, g) ==
  IF k > Len(cands) THEN g
  ELSE IF ClosesCycle(g.edges, cands[k])
    THEN AddEdges(cands, k + 1, [g EXCEPT !.warnings = @ + 1])
    ELSE AddEdges(cands, k + 1, [g EXCEPT !.edges = @ \cup {cands[k]}])

\* buildGraph(nodes, frameHierarchy)
buildGraph(net, creator) ==
  AddEdges(CandidateEdges(net, creator), 1, [edges |-> {}, warnings |-> 0])

MaxOf(S) == CHOOSE m \in S : \A x \in S : x <= m
MinOf(S) == CHOOSE m \in S : \A x \in S : m <= x

\* The modelled duration of a node: the captured duration of a request, nothing
\* for a synthetic root.
Duration(net, x) == IF x \in Requests(net) THEN net[x].endTime - net[x].startTime ELSE 0

\* A node's simulated start: the later of its dependencies' end and the moment a
\* transfer slot is free.
simStart(depEnd, slotFree) == IF depEnd >= slotFree THEN depEnd ELSE slotFree

RECURSIVE simLoop(_, _, _, _)
\* The nodes in topological order, lowest ready node first; tm maps the nodes
\* done to their timing, slots[s] is the time slot s is free again.
simLoop(net, E, tm, slots) ==
  LET done == DOMAIN tm
      ready == {x \in Nodes(net) \ done : Preds(E, x) \subseteq done}
  IN IF ready = {} THEN tm
     ELSE LET x == MinOf(ready)
              depEnd == MaxOf({tm[d].endTime : d \in Preds(E, x)} \cup {0})
          IN IF x \notin Requests(net)
               THEN simLoop(net, E,
                            tm @@ (x :> [startTime |-> depEnd, endTime |-> depEnd]),
                            slots)
               ELSE LET free == MinOf({slots[s] : s \in DOMAIN slots})
                        s == MinOf({j \in DOMAIN slots : slots[j] = free})
                        start == simStart(depEnd, free)
                        end == start + Duration(net, x)
                    IN simLoop(net, E,
                               tm @@ (x :> [startTime |-> start, endTime |-> end]),
                               [slots EXCEPT ![s] = end])

\* simulate(graph), with `cap` transfer slots
simulate(net, E, cap) == simLoop(net, E, <<>>, [s \in 1..cap |-> 0])

RECURSIVE criticalPath(_, _, _)
\* criticalPath(graph, timing, target): the dependencies of the target that end
\* last (all of them on a tie), and the critical path of each of those.
criticalPath(E, tm, target) ==
  LET deps == Preds(E, target)
      gating == {d \in deps : \A o \in deps : tm[d].endTime >= tm[o].endTime}
  IN gating \cup UNION {criticalPath(E, tm, d) : d \in gating}

----------------------------------------------------------------------------
(* GptBidsInParallel                                                       *)

Record(tag, bid, bidder, frameId, initiator, start, end) ==
  [isImplTag |-> tag, isBidRequest |-> bid, bidder |-> bidder, url |-> 0,
   frameId |-> frameId, initiator |-> initiator,
   startTime |-> start, endTime |-> end]

\* Each record gets a URL of its own.
WithUrls(recs) == [i \in DOMAIN recs |-> [recs[i] EXCEPT !.url = i]]

\* getHeaderBidder(bid.url) || ''
bidderOf(r) == IF r.bidder = "undefined" THEN "" ELSE r.bidder

\* getAbbreviatedUrl(bid.url)
getAbbreviatedUrl(url) == [abbreviated |-> url]

\* network.find((r) => isImplTag(r.url)): the index of the record, 0 without one
pubadsImplOf(net) ==
  LET tags == {i \in Requests(net) : net[i].isImplTag}
  IN IF tags = {} THEN 0 ELSE MinOf(tags)

\* network.filter(isBidRequest).filter((b) => b.frameId == pubadsImpl.frameId),
\* as indices into the network records
bidsOf(net, tag) ==
  SelectSeq([i \in Requests(net) |-> i],
            LAMBDA i : net[i].isBidRequest /\ net[i].frameId = net[tag].frameId)

\* getCriticalGraph(network, trace.traceEvents, bid)
getCriticalGraph(E, tm, bid) == criticalPath(E, tm, bid)

\* isSerialized that reports every bid of the tag's frame.
isSerializedAlways(E, tm, bid, tag) == TRUE

\* getCriticalGraph(network, trace.traceEvents, bid).has(pubadsImpl)
isSerialized(E, tm, bid, tag) == tag \in getCriticalGraph(E, tm, bid)

\* bidRow with the subtraction the other way round.
bidRowSwapped(net, tm, bid) ==
  LET t == IF bid \in DOMAIN tm THEN tm[bid] ELSE net[bid]
  IN [bidder |-> bidderOf(net[bid]), url |-> getAbbreviatedUrl(net[bid].url),
      startTime |-> t.startTime, duration |-> t.startTime - t.endTime]

\* The row of a bid: const {startTime, endTime} = timingsByRecord.get(bid) || bid
bidRow(net, tm, bid) ==
  LET t == IF bid \in DOMAIN tm THEN tm[bid] ELSE net[bid]
  IN [bidder |-> bidderOf(net[bid]), url |-> getAbbreviatedUrl(net[bid].url),
      startTime |-> t.startTime, duration |-> t.endTime - t.startTime]

\* gptStep that looks the bidder up after adding it.
gptStepAddFirst(net, E, tm, tag, bid, st) ==
  IF ~isSerialized(E, tm, bid, tag) THEN st ELSE [st EXCEPT !.seen = @ \cup {bidderOf(net[bid])}]

\* gptStep without the look-up of the bidder.
gptStepNoDedup(net, E, tm, tag, bid, st) ==
  IF ~isSerialized(E, tm, bid, tag) THEN st
  ELSE [seen |-> st.seen \cup {bidderOf(net[bid])},
        tableView |-> Append(st.tableView, bidRow(net, tm, bid))]

\* One iteration of the loop over the bids: seen and tableView after `bid`.
gptStep(net, E, tm, tag, bid, st) ==
  IF ~isSerialized(E, tm, bid, tag) THEN st
  ELSE IF bidderOf(net[bid]) \in st.seen THEN st
  ELSE [seen |-> st.seen \cup {bidderOf(net[bid])},
        tableView |-> Append(st.tableView, bidRow(net, tm, bid))]

RECURSIVE gptLoop(_, _, _, _, _, _)
\* seen and tableView after the first k bids.
gptLoop(net, E, tm, tag, bids, k) ==
  IF k = 0 THEN [seen |-> {}, tableView |-> <<>>]
  ELSE gptStep(net, E, tm, tag, bids[k], gptLoop(net, E, tm, tag, bids, k - 1))

\* GptBidsInParallel.makeTableDetails(HEADINGS, tableView)
makeTableDetails(tableView) ==
  [type |-> "table", headings |-> <<"bidder", "url", "startTime", "duration">>,
   items |-> tableView]

Undefined == [type |-> "undefined"]

\* What the audit returns for a tableView
gptProduct(tableView) ==
  LET failed == Len(tableView) > 0
  IN [notApplicable |-> FALSE, message |-> "scored",
      numericValue |-> Len(tableView),
      score |-> IF failed THEN 0 ELSE 1,
      details |-> IF failed THEN makeTableDetails(tableView) ELSE Undefined]

\* Records by classification, each lasting one unit.
ClassifiedRecords ==
  {Record(k[1], k[2], k[3], f, i, 0, 1) :
     k \in {<<FALSE, FALSE, "undefined">>, <<TRUE, FALSE, "undefined">>,
            <<FALSE, TRUE, "undefined">>, <<FALSE, TRUE, "a">>,
            <<TRUE, TRUE, "undefined">>},
     f \in Frames, i \in 0..MaxRecords}

InitGptCommon ==
  /\ audit = "gpt-bids-parallel"
  /\ pc = "start"
  /\ traceEvents = <<>>
  /\ IFrameElements = <<>>
  /\ timing = NaN
  /\ LighthouseRunWarnings = <<>>
  /\ scoreCalls = <<>>
  /\ normalScore = -1
  /\ graph = {}
  /\ nodeTimings = <<>>
  /\ result = NoResult

\* Any classification of the records, in a page without frame hierarchy.
InitGpt ==
  /\ InitGptCommon
  /\ \E n \in 0..MaxRecords :
       \E recs \in [1..n -> ClassifiedRecords] : network = WithUrls(recs)
  /\ frameCreator = 0
  /\ maxConnections = MaxConnections

\* GptBidsInParallel.audit
GptBidsInParallelAudit ==
  /\ audit = "gpt-bids-parallel"
  /\ pc = "start"
  /\ pc' = "done"
  /\ LET tag == pubadsImplOf(network)
         g == buildGraph(network, frameCreator)
         tm == simulate(network, g.edges, maxConnections)
     IN IF tag = 0
          THEN result' = NoTag /\ UNCHANGED <<graph, nodeTimings>>
          ELSE IF Len(bidsOf(network, tag)) = 0
            THEN result' = NoBids /\ UNCHANGED <<graph, nodeTimings>>
            ELSE /\ graph' = g.edges
                 /\ nodeTimings' = tm
                 /\ LET bids == bidsOf(network, tag)
                    IN result' = gptProduct(
                         gptLoop(network, g.edges, tm, tag, bids, Len(bids)).tableView)
  /\ UNCHANGED <<audit, traceEvents, IFrameElements, timing, LighthouseRunWarnings,
                 network, frameCreator, maxConnections, scoreCalls, normalScore>>

NextGpt == GptBidsInParallelAudit

SpecGpt == InitGpt /\ [][NextGpt]_vars

\* The implementation tag followed by bids, of any frame, initiator and
\* captured duration.
TimedRecord(i, f, init, d) ==
  IF i = 1 THEN Record(TRUE, FALSE, "undefined", f, init, 0, d)
  ELSE Record(FALSE, TRUE, IF i = 2 THEN "a" ELSE "undefined", f, init, 0, d)

Durations == {0, 1, 2}

\* Any initiator references, frame hierarchy, durations and concurrency cap.
InitSim ==
  /\ InitGptCommon
  /\ \E n \in 1..MaxRecords :
       \E fs \in [1..n -> Frames], is \in [1..n -> 0..MaxRecords],
          ds \in [1..n -> Durations] :
         network = WithUrls([i \in 1..n |-> TimedRecord(i, fs[i], is[i], ds[i])])
  /\ frameCreator \in 0..MaxRecords
  /\ maxConnections \in 1..MaxConnections

SpecSim == InitSim /\ [][NextGpt]_vars

----------------------------------------------------------------------------
(* The two scoring audits side by side, CumulativeAdShift on short traces  *)

MaxShortTrace == 1

InitCASShort == InitCAS /\ Len(traceEvents) <= MaxShortTrace

SpecScore == (InitFAP \/ InitCASShort) /\ [][NextFAP \/ NextCAS]_vars

----------------------------------------------------------------------------
(* Properties of CumulativeAdShift                                         *)

\* The audit under run returned a scored product.
Scored == pc = "done" /\ ~result.notApplicable

\* A layout shift with args.data, in the main frame, without recent input.
Qualifies(e) == e.args = "data" /\ e.is_main_frame /\ ~e.had_recent_input

\* The old rectangle of one of e's impacted nodes overlaps the client rectangle
\* of one of the ads.
NextToAd(e, ads) ==
  \E n \in 1..Len(e.impacted_nodes) : \E a \in 1..Len(ads) :
    overlaps(toClientRect(e.impacted_nodes[n].old_rect), ads[a].clientRect)

\* e.ts is strictly before the tag load, which is Infinity or finite.
BeforeTag(e, tagLoadTs) == tagLoadTs = Infinity \/ (IsFinite(tagLoadTs) /\ e.ts < tagLoadTs.v)

RECURSIVE ScoreSum(_, _)
\* The sum of the scores of the events of `events` whose index is in I.
ScoreSum(events, I) ==
  IF I = {} THEN 0
  ELSE LET i == CHOOSE j \in I : TRUE
       IN events[i].score + ScoreSum(events, I \ {i})

\* C2: CumulativeAdShift.audit returns a not-applicable result and never calls
\* the score evaluator whenever no layout shift of the trace qualifies (args.data,
\* main frame, no recent input) or no ad iframe was rendered, and it checks for
\* layout shifts before it checks for ads.
C2_NotApplicableWithoutQualifyingShift ==
  (audit = "cumulative-ad-shift" /\ pc = "done") =>
    LET se == LayoutShiftEvents(traceEvents)
        noQualifying == \A i \in 1..Len(se) : ~Qualifies(se[i])
        noAd == \A i \in 1..Len(IFrameElements) : ~IFrameElements[i].isAdIframe
    IN /\ (noQualifying \/ noAd) => (result.notApplicable /\ scoreCalls = <<>>)
       /\ Len(se) = 0 => result = NoLayoutShifts

\* C8: numShifts and cumulativeShift are the number and the score sum of the
\* qualifying layout shifts; the ad-shift totals those of the qualifying shifts
\* next to an ad; the pre-tag totals those of the latter strictly before
\* tagLoadTs; and an iteration over an event that does not qualify leaves every
\* total as it was.
C8_TotalsCountQualifyingShifts ==
  (audit = "cumulative-ad-shift" /\ Scored) =>
    LET se == LayoutShiftEvents(traceEvents)
        ads == AdIframes(IFrameElements)
        tag == tagLoadEventTs(traceEvents)
        Q == {i \in 1..Len(se) : Qualifies(se[i])}
        A == {i \in Q : NextToAd(se[i], ads)}
        P == {i \in A : BeforeTag(se[i], tag)}
        d == result.details
    IN /\ d.numShifts = Cardinality(Q)
       /\ d.cumulativeShift = ScoreSum(se, Q)
       /\ d.numAdShifts = Cardinality(A)
       /\ d.cumulativeAdShift = ScoreSum(se, A)
       /\ d.numPreImplTagAdShifts = Cardinality(P)
       /\ d.cumulativePreImplTagAdShift = ScoreSum(se, P)
       /\ \A k \in 1..Len(se) :
            ~Qualifies(se[k]) =>
              computeLoop(se, k, ads, tag) = computeLoop(se, k - 1, ads, tag)

\* A scored run after an implementation-tag event whose three counts differ.
C8_Witness ==
  /\ audit = "cumulative-ad-shift" /\ Scored
  /\ result.details.numShifts > result.details.numAdShifts
  /\ result.details.numAdShifts > result.details.numPreImplTagAdShifts
  /\ IsFinite(tagLoadEventTs(traceEvents))

\* C10: numPreImplTagAdShifts <= numAdShifts <= numShifts; with non-negative
\* scores the cumulative totals are ordered the same way; and without an
\* implementation-tag event the pre-tag totals equal the ad-shift totals.
C10_TotalsAreOrdered ==
  (audit = "cumulative-ad-shift" /\ Scored) =>
    LET se == LayoutShiftEvents(traceEvents)
        d == result.details
        nonNegative == \A i \in 1..Len(se) : se[i].args = "data" => se[i].score >= 0
        noTag == \A i \in 1..Len(traceEvents) : ~traceEvents[i].implTag
    IN /\ d.numPreImplTagAdShifts <= d.numAdShifts
       /\ d.numAdShifts <= d.numShifts
       /\ nonNegative =>
            /\ d.cumulativePreImplTagAdShift <= d.cumulativeAdShift
            /\ d.cumulativeAdShift <= d.cumulativeShift
       /\ noTag =>
            /\ d.numPreImplTagAdShifts = d.numAdShifts
            /\ d.cumulativePreImplTagAdShift = d.cumulativeAdShift

\* A scored run with non-negative scores, an ad shift before the tag load and
\* one after it.
C10_Witness ==
  /\ audit = "cumulative-ad-shift" /\ Scored
  /\ \A i \in 1..Len(traceEvents) : traceEvents[i].score >= 0
  /\ 0 < result.details.cumulativePreImplTagAdShift
  /\ result.details.cumulativePreImplTagAdShift < result.details.cumulativeAdShift

----------------------------------------------------------------------------
(* Properties of FirstAdPaint                                              *)

\* C3: FirstAdPaint.audit hands the timing to the score evaluator only when it is
\* finite and strictly positive; for every other timing it returns NoAdRendered
\* and appends exactly one NoAdRendered run warning; when it scores it appends
\* no run warning.
C3_ScoresOnlyFinitePositiveTiming ==
  [][FirstAdPaintAudit =>
       LET measurable == IsFinite(timing) /\ timing.v > 0
       IN /\ scoreCalls' # scoreCalls => measurable
          /\ ~measurable =>
               /\ result' = NoAdRendered
               /\ scoreCalls' = scoreCalls
               /\ LighthouseRunWarnings' =
                    Append(LighthouseRunWarnings, WarnNoAdRendered)
          /\ ~result'.notApplicable =>
               LighthouseRunWarnings' = LighthouseRunWarnings]_vars

\* C4: the score FirstAdPaint.audit returns is 1 when the evaluator's score is at
\* least 0.9 and the evaluator's score, below 0.9, otherwise, so never in
\* [0.9, 1); CumulativeAdShift.audit returns the evaluator's score as it is.
C4_ClampIsFirstAdPaintOnly ==
  Scored =>
    /\ audit = "first-ad-paint" =>
         /\ normalScore >= 900 => result.score = 1000
         /\ normalScore < 900 => result.score = normalScore
         /\ ~(result.score >= 900 /\ result.score < 1000)
    /\ audit = "cumulative-ad-shift" => result.score = normalScore

\* FirstAdPaint scored a run whose evaluator score is 0.9: the clamp's boundary.
C4_Witness ==
  /\ audit = "first-ad-paint" /\ Scored
  /\ normalScore = 900
  /\ result.score = 1000

----------------------------------------------------------------------------
(* Properties of the graph core and of GptBidsInParallel                   *)

RECURSIVE PathWithin(_, _, _, _)
\* E has a directed path of 1 to n edges from a to b.
PathWithin(E, a, b, n) ==
  /\ n > 0
  /\ \/ <<a, b>> \in E
     \/ \E e \in E : e[1] = a /\ PathWithin(E, e[2], b, n - 1)

\* E has a directed path from a to b.
HasPath(E, a, b) == PathWithin(E, a, b, Cardinality(E))

\* The graph and the timing of the network records of the state.
BuiltGraph == buildGraph(network, frameCreator)
SimulatedTiming == simulate(network, BuiltGraph.edges, maxConnections)

\* The first implementation-tag record, and the bids of its frame.
FirstTag == CHOOSE i \in Requests(network) :
              network[i].isImplTag /\ \A j \in 1..(i - 1) : ~network[j].isImplTag
HasTag == \E i \in Requests(network) : network[i].isImplTag
FrameBids == {b \in Requests(network) :
                network[b].isBidRequest /\ network[b].frameId = network[FirstTag].frameId}
\* The bids of the tag's frame that have the tag on their critical path.
SerializedBids ==
  {b \in FrameBids : FirstTag \in criticalPath(BuiltGraph.edges, SimulatedTiming, b)}

GptScored == audit = "gpt-bids-parallel" /\ Scored
Rows == IF result.details = Undefined THEN <<>> ELSE result.details.items
\* The bid a row describes.
RowBid(row) == CHOOSE b \in Requests(network) : getAbbreviatedUrl(network[b].url) = row.url

\* C1: with a tag and a bid in the tag's frame, the score is 0 exactly when some
\* bid of the tag's frame has the first tag record in its critical graph, and
\* otherwise the score is 1 and there are no details.
C1_FailsIffSomeBidSerialized ==
  (audit = "gpt-bids-parallel" /\ pc = "done" /\ HasTag /\ FrameBids # {}) =>
    /\ ~result.notApplicable
    /\ result.score = 0 <=> SerializedBids # {}
    /\ SerializedBids = {} => (result.score = 1 /\ result.details = Undefined)

\* A failing run in which the two serialized bids share a recognized bidder.
C1_Witness ==
  /\ GptScored /\ result.score = 0
  /\ \E b, c \in SerializedBids :
       b # c /\ network[b].bidder = "a" /\ network[c].bidder = "a"

\* C9: the rows' bidders are pairwise distinct; the row of a bidder is the row of
\* the first serialized bid of that bidder; unrecognized bidders share one row
\* with the empty name; numericValue is the number of distinct bidders among
\* the serialized bids, at most the number of bids of the tag's frame.
C9_OneRowPerBidder ==
  GptScored =>
    /\ \A i, j \in 1..Len(Rows) : Rows[i].bidder = Rows[j].bidder => i = j
    /\ \A i \in 1..Len(Rows) :
         \E b \in SerializedBids :
           /\ Rows[i] = bidRow(network, SimulatedTiming, b)
           /\ \A c \in SerializedBids :
                bidderOf(network[c]) = Rows[i].bidder => b <= c
    /\ \A b \in SerializedBids :
         network[b].bidder = "undefined" => \E i \in 1..Len(Rows) : Rows[i].bidder = ""
    /\ result.numericValue = Cardinality({bidderOf(network[b]) : b \in SerializedBids})
    /\ result.numericValue = Len(Rows)
    /\ result.numericValue <= Cardinality(FrameBids)

\* Two serialized bids without a recognized bidder, reported in one row.
C9_Witness ==
  /\ GptScored
  /\ Cardinality({b \in SerializedBids : network[b].bidder = "undefined"}) = 2
  /\ Len(Rows) = 1 /\ Rows[1].bidder = ""

\* C5: the critical path of a node never holds the node, and each of its members
\* has a directed path to the node; so no row reports a bid that is the tag
\* record itself, and every row's bid has the tag among its ancestors.
C5_CriticalPathHoldsAncestorsOnly ==
  LET E == BuiltGraph.edges
      tm == simulate(network, E, maxConnections)
  IN /\ \A n \in Nodes(network) :
          LET cp == criticalPath(E, tm, n)
          IN /\ n \notin cp
             /\ \A m \in cp : HasPath(E, m, n)
     /\ GptScored =>
          \A i \in 1..Len(Rows) :
            /\ RowBid(Rows[i]) # FirstTag
            /\ HasPath(graph, FirstTag, RowBid(Rows[i]))

\* The tag record is itself a bid of its frame and is not reported, and the bid
\* that is reported depends on the tag through a third request.
C5_Witness ==
  /\ GptScored /\ Len(Rows) = 1
  /\ FirstTag \in FrameBids
  /\ <<FirstTag, RowBid(Rows[1])>> \notin graph

KeptBefore(k) ==
  {CandidateEdges(network, frameCreator)[j] : j \in 1..(k - 1)} \cap BuiltGraph.edges

\* C7: whatever the initiator references, buildGraph returns a graph without
\* cycle, made of candidate edges; a candidate is left out exactly when it would
\* close a cycle with the edges kept before it; a request whose initiator is
\* absent has the edge from the root of its frame.
C7_BuiltGraphIsAcyclic ==
  LET cands == CandidateEdges(network, frameCreator)
      E == BuiltGraph.edges
  IN /\ \A n \in Nodes(network) : ~HasPath(E, n, n)
     /\ E \subseteq {cands[k] : k \in 1..Len(cands)}
     /\ \A k \in 1..Len(cands) :
          cands[k] \notin E <=>
            \/ cands[k][1] = cands[k][2]
            \/ HasPath(KeptBefore(k), cands[k][2], cands[k][1])
     /\ BuiltGraph.warnings = Cardinality({k \in 1..Len(cands) : cands[k] \notin E})
     /\ \A i \in Requests(network) :
          network[i].initiator \notin Requests(network) =>
            <<Root(network[i].frameId), i>> \in E
     /\ GptScored => graph = E

\* The audit ran on three requests that initiate one another in a circle: the
\* two edges seen first were kept, the one that closes the circle was left out.
C7_Witness ==
  /\ GptScored /\ Len(network) = 3
  /\ network[1].initiator = 3 /\ network[2].initiator = 1 /\ network[3].initiator = 2
  /\ BuiltGraph.warnings = 1
  /\ {<<3, 1>>, <<1, 2>>} \subseteq graph
  /\ <<2, 3>> \notin graph

=============================================================================
